---- MODULE Spec2Model ----
(***************************************************************************)
(* Pro_Scanner: username scan over a list of platforms with a 24 hour      *)
(* result cache.  The model covers both source variants,                   *)
(*   v1 = src/osint_tool.py      v2 = src/src/osint_tool.py                *)
(* DatabaseManager (results table), is_username_found, scan_site,         *)
(* run_scan with its concurrent batch of probes, load_sites_config and     *)
(* main.  Spec is the whole program; SpecClassify applies                  *)
(* is_username_found to every page of a bounded vocabulary.                *)
(***************************************************************************)
EXTENDS Integers, Sequences, FiniteSets, TLC

VARIABLES
    variant,         \* which source file runs: "v1" or "v2"
    sites_config,    \* sites.json as loaded: sequence (dict order) of [name, url]
    now,             \* time.time(), in clock ticks
    results_table,   \* rows of the SQLite table results
    pc,              \* position of main / run_scan
    username,        \* run_scan argument
    idx,             \* position of the lookup loop / of the save loop
    cached_results,  \* run_scan local list
    sites_to_scan,   \* run_scan local list (site names, in order)
    task_state,      \* per task of the batch: pending/inflight/returned/raised/cancelled
    task_result,     \* per task: the dict scan_site returned
    attempts,        \* history, per task: how each GET it issued ended
    completed,       \* history: the tasks in the order in which they returned
    results,         \* what asyncio.gather returned
    found_count,     \* run_scan local; unbound until line 259 runs
    output,          \* lines printed by main and run_scan
    error,           \* exception that ended the invocation ("" if none)
    lookups,         \* history: cache lookups of this scan [site, at, hit]
    writes,          \* history: cache writes of this scan [site, at]
    last_write,      \* history: most recent save_result per key
    last_call,       \* history: last direct DatabaseManager call
    scans,           \* number of main invocations so far
    api_calls,       \* number of direct DatabaseManager calls so far
    sites_file,      \* sites.json on disk
    table_exists,    \* init_db has created the results table
    cli,             \* what main was given: argument, typed input, the file it found
    config_type,     \* Python type of the value load_sites_config returned
    sample,          \* a response handed to is_username_found
    verdict          \* what each variant of is_username_found makes of sample

vars == <<variant, sites_config, now, results_table, pc, username, idx,
          cached_results, sites_to_scan, task_state, task_result, attempts, completed, results,
          found_count, output, error, lookups, writes, last_write, last_call,
          scans, api_calls, sample, verdict, sites_file, table_exists, cli,
          config_type>>

-----------------------------------------------------------------------------
(* Bounds *)

MaxTime == 2        \* the clock runs 0..MaxTime
MaxScans == 2       \* main invocations per behaviour
MaxApiCalls == 2    \* direct save_result / get_cached_result calls per behaviour
MaxWords == 3       \* length of the page texts given to is_username_found

(* Program constants *)

Horizon == 1            \* 24 * 3600 seconds, as clock ticks of 24 hours
max_connections == 10   \* httpx.Limits(max_connections=10)
Timeout100 == 3000      \* timeout=30.0, in 1/100 s

-----------------------------------------------------------------------------
(* Values *)

Variants == {"v1", "v2"}
Usernames == {"alice", "bob"}
ApiUsernames == {"alice"}

\* Kinds of "url" entry of a platform:
\*   valid      a str.format template with one positional slot
\*   missing    no "url" key, None or ""
\*   nonstring  a truthy value that is not a str
\*   badformat  a str on which .format(username) raises
\*              (KeyError "{name}", IndexError "{}{}", ValueError "{")
UrlKinds == {"valid", "missing", "nonstring", "badformat"}

Site(n, u) == [name |-> n, url |-> u]

SmallSites == {"A", "B"}

\* max_connections + 1 platforms, all with a valid template.
RECURSIVE ManySites(_)
ManySites(n) ==
    IF n = 0 THEN <<>>
    ELSE Append(ManySites(n - 1), Site("P" \o ToString(n), "valid"))

Configs ==
    { <<>>,
      <<Site("A", "valid"), Site("B", "valid")>>,
      <<Site("A", "valid"), Site("B", "missing")>>,
      <<Site("B", "nonstring"), Site("A", "valid")>>,
      <<Site("A", "valid"), Site("B", "badformat")>> }

\* Lines 290-296.
default_sites ==
    << Site("GitHub", "valid"), Site("Twitter", "valid"),
       Site("Instagram", "valid"), Site("Reddit", "valid"),
       Site("YouTube", "valid") >>

\* sites.json: absent, not readable, not JSON, a JSON object (its entries in
\* file order), or JSON of another type (its content does not matter).
File(kind, content) == [kind |-> kind, content |-> content]

SitesFiles ==
    { File("absent", <<>>), File("unreadable", <<>>), File("malformed", <<>>),
      File("array", <<>>) }
        \cup { File("object", c) : c \in Configs \cup {ManySites(max_connections + 1)} }

\* The value load_sites_config returns, the file it leaves, or the exception
\* that leaves it.
load_sites_config(file) ==
    IF file.kind = "absent"
    THEN [raised |-> "", ret |-> default_sites, type |-> "dict",
          file |-> File("object", default_sites)]
    ELSE IF file.kind = "unreadable"
    THEN [raised |-> "PermissionError", ret |-> <<>>, type |-> "", file |-> file]
    ELSE IF file.kind = "malformed"
    THEN [raised |-> "", ret |-> default_sites, type |-> "dict", file |-> file]
    ELSE [raised |-> "", ret |-> file.content,
          type |-> IF file.kind = "object" THEN "dict" ELSE "list",
          file |-> file]

\* Command line and prompt.  A typed line is a sequence of pieces, each a
\* whitespace character or a run of other characters.
Whitespace == {" ", "\t"}
Args == {"", "alice"}
TypedInputs == { <<>>, <<" ", "\t">>, <<" ", "bob", " ">> }

RECURSIVE LStrip(_)
LStrip(s) == IF s # <<>> /\ Head(s) \in Whitespace THEN LStrip(Tail(s)) ELSE s

RECURSIVE RStrip(_)
RStrip(s) ==
    IF s # <<>> /\ s[Len(s)] \in Whitespace
    THEN RStrip(SubSeq(s, 1, Len(s) - 1)) ELSE s

\* Variant that keeps the whitespace.
Strip_Nothing(s) == s

\* str.strip()
Strip(s) == RStrip(LStrip(s))

RECURSIVE Text(_)
Text(s) == IF s = <<>> THEN "" ELSE Head(s) \o Text(Tail(s))

NoCli == [arg |-> "", prompted |-> FALSE, typed |-> <<>>, file |-> File("absent", <<>>)]

\* Numbers carry their Python/SQLite type.
PyInt(n) == [ty |-> "int", v |-> n]
PyFloat(n) == [ty |-> "float", v |-> n]
PyEq(a, b) == a.v = b.v

\* URLs: "N/A", the template with the username substituted, or where a
\* redirect chain ended.
NA == [kind |-> "N/A", site |-> "", user |-> ""]
FullUrl(site, user) == [kind |-> "full_url", site |-> site, user |-> user]
RedirectedUrl(site, user) == [kind |-> "redirected", site |-> site, user |-> user]

Result(site, url, status, code, rt) ==
    [siteName |-> site, url |-> url, status |-> status,
     httpCode |-> code, responseTime |-> rt]

NoResult == Result("", NA, "", PyInt(0), PyInt(0))

Verdicts == {"FOUND", "NOT FOUND", "ERROR", "TIMEOUT"}

-----------------------------------------------------------------------------
(* DatabaseManager *)

Row(u, s, url, status, code, rt, ts) ==
    [username |-> u, site_name |-> s, url |-> url, status |-> status,
     http_code |-> code, response_time |-> rt, timestamp |-> ts]

\* Column affinities of the table (http_code INTEGER, response_time REAL).
AffinityINTEGER(x) == PyInt(x.v)
AffinityREAL(x) == PyFloat(x.v)

None == [found |-> FALSE, value |-> NoResult]
Some(r) == [found |-> TRUE, value |-> r]

\* Variants of the WHERE clause with the comparison turned round, and with
\* the boundary included.
SelectLive_Reversed(table, u, s, cutoff) ==
    { r \in table : r.username = u /\ r.site_name = s /\ r.timestamp < cutoff }

SelectLive_Inclusive(table, u, s, cutoff) ==
    { r \in table : r.username = u /\ r.site_name = s /\ r.timestamp >= cutoff }

\* WHERE username=? AND site_name=? AND timestamp > ?
SelectLive(table, u, s, cutoff) ==
    { r \in table : r.username = u /\ r.site_name = s /\ r.timestamp > cutoff }

\* Variant reading responseTime from the http_code column.
get_cached_result_WrongColumn(v, table, u, s, t) ==
    LET rows == { r \in table : r.username = u /\ r.site_name = s
                                  /\ r.timestamp > t - Horizon }
    IN  IF rows = {} THEN None
        ELSE LET row == CHOOSE r \in rows : TRUE
             IN  Some(Result(s, row.url, row.status, row.http_code,
                             PyFloat(row.http_code.v)))

get_cached_result(v, table, u, s, t) ==
    LET cutoff == t - Horizon
        rows == SelectLive(table, u, s, cutoff)
    IN  IF rows = {} THEN None
        ELSE LET row == CHOOSE r \in rows : TRUE
             IN  Some(Result(s, row.url, row.status,
                             IF v = "v2" THEN PyInt(row.http_code.v)
                                         ELSE row.http_code,
                             IF v = "v2" THEN PyFloat(row.response_time.v)
                                         ELSE row.response_time))

\* Variant without the primary key: the old row stays.
InsertOrReplace_NoReplace(table, row) == table \cup {row}

\* Variant with PRIMARY KEY (site_name).
InsertOrReplace_KeySiteOnly(table, row) ==
    { r \in table : r.site_name # row.site_name } \cup {row}

\* INSERT OR REPLACE INTO results VALUES (...), under PRIMARY KEY
\* (username, site_name): a conflicting row is deleted first.
InsertOrReplace(table, row) ==
    { r \in table : ~(r.username = row.username /\ r.site_name = row.site_name) }
        \cup {row}

\* Variant that does not cache failed probes.
save_result_SkipErrors(v, table, u, result, t) ==
    IF result.status \in {"ERROR", "TIMEOUT"} THEN table
    ELSE InsertOrReplace(table,
             Row(u, result.siteName, result.url, result.status,
                 AffinityINTEGER(result.httpCode),
                 AffinityREAL(result.responseTime), t))

save_result(v, table, u, result, t) ==
    InsertOrReplace(table,
        Row(u, result.siteName, result.url, result.status,
            AffinityINTEGER(IF v = "v2" THEN PyInt(result.httpCode.v)
                                        ELSE result.httpCode),
            AffinityREAL(IF v = "v2" THEN PyFloat(result.responseTime.v)
                                     ELSE result.responseTime),
            t))

-----------------------------------------------------------------------------
(* is_username_found *)

\* Page text is a sequence of words; str.lower() acts word by word.
Lower(w) ==
    CASE w = "This" -> "this"
      [] w = "User" -> "user"
      [] w = "Error" -> "error"
      [] w = "Profile" -> "profile"
      [] OTHER -> w

LowerText(t) == [k \in 1..Len(t) |-> Lower(t[k])]

\* phrase in text
Contains(text, phrase) ==
    \E k \in 0..(Len(text) - Len(phrase)) :
        \A j \in 1..Len(phrase) : text[k + j] = phrase[j]

error_indicators ==
    { <<"not", "found">>, <<"does", "not", "exist">>, <<"404">>,
      <<"no", "such", "user">>, <<"user", "not", "found">>,
      <<"profile", "not", "found">>, <<"doesn't", "exist">> }

success_indicators ==
    { <<"profile">>, <<"member">>, <<"user">>, <<"account">>, <<"posts">>,
      <<"followers">>, <<"following">>, <<"tweets">>, <<"repositories">> }

NoTitle == [present |-> FALSE, text |-> <<>>]
Title(t) == [present |-> TRUE, text |-> t]

\* Variant that looks for the success indicators first.
is_username_found_PositiveFirst(v, response) ==
    IF response.status_code # 200 THEN FALSE
    ELSE LET html_content == LowerText(response.text)
         IN  IF \E e \in success_indicators : Contains(html_content, e) THEN TRUE
             ELSE IF \E e \in error_indicators : Contains(html_content, e) THEN FALSE
             ELSE v = "v1"

\* Variant without the title check.
is_username_found_NoTitle(v, response) ==
    IF response.status_code # 200 THEN FALSE
    ELSE LET html_content == LowerText(response.text)
         IN  IF \E e \in error_indicators : Contains(html_content, e) THEN FALSE
             ELSE IF \E e \in success_indicators : Contains(html_content, e) THEN TRUE
             ELSE v = "v1"

\* Variant whose last return is False in both files.
is_username_found_DefaultNotFound(v, response) ==
    IF response.status_code # 200 THEN FALSE
    ELSE LET html_content == LowerText(response.text)
         IN  IF \E e \in error_indicators : Contains(html_content, e) THEN FALSE
             ELSE IF \E e \in success_indicators : Contains(html_content, e) THEN TRUE
             ELSE /\ response.title.present
                  /\ LET title_text == LowerText(response.title.text)
                     IN  \/ Contains(title_text, <<"profile">>)
                         \/ Contains(title_text, <<"user">>)

is_username_found(v, response) ==
    IF response.status_code # 200 THEN FALSE
    ELSE LET html_content == LowerText(response.text)
         IN  IF \E e \in error_indicators : Contains(html_content, e) THEN FALSE
             ELSE IF \E e \in success_indicators : Contains(html_content, e) THEN TRUE
             ELSE IF /\ response.title.present
                     /\ LET title_text == LowerText(response.title.text)
                        IN  \/ Contains(title_text, <<"profile">>)
                            \/ Contains(title_text, <<"user">>)
                  THEN TRUE
             ELSE v = "v1"

-----------------------------------------------------------------------------
(* Transport: what a GET can end in *)

Page(code, text, title) == [status_code |-> code, text |-> text, title |-> title]

Pages ==
    { Page(200, <<"alice's", "profile", "page", "5", "followers">>, NoTitle),
      Page(404, <<"profile", "followers", "500">>, NoTitle),
      Page(200, <<"This", "profile", "was", "not", "found">>, Title(<<"Error">>)),
      Page(200, <<"welcome">>, NoTitle),
      Page(200, <<"welcome">>, Title(<<"User", "page">>)) }

Response(page, url) ==
    [status_code |-> page.status_code, text |-> page.text,
     title |-> page.title, url |-> url]

NoResponse == Response(Page(0, <<>>, NoTitle), NA)

\* elapsed time of a request, in 1/100 s
Quick == 5

Outcome(kind, response, elapsed) ==
    [kind |-> kind, response |-> response, elapsed |-> elapsed]

\* The mock transport.  Platform A serves a profile page or a 404 page,
\* times out or fails; B redirects to a page without any signal, slowly;
\* every other platform serves a profile page.
Transport(site, user) ==
    IF site = "A"
    THEN { Outcome("response",
                   Response(Page(200, <<"alice's", "profile", "page", "5", "followers">>,
                                 NoTitle), FullUrl(site, user)), Quick),
           Outcome("response",
                   Response(Page(404, <<"profile", "followers", "500">>, NoTitle),
                            FullUrl(site, user)), Quick),
           Outcome("timeout", NoResponse, Timeout100),
           Outcome("error", NoResponse, Quick) }
    ELSE IF site = "B"
    THEN { Outcome("response",
                   Response(Page(200, <<"welcome">>, NoTitle),
                            RedirectedUrl(site, user)), Timeout100) }
    ELSE { Outcome("response",
                   Response(Page(200, <<"user", "profile">>, NoTitle),
                            FullUrl(site, user)), Quick) }

\* The platforms outside SmallSites answer in the order of the requests.
InOrder(site, k, states) ==
    site \in SmallSites \/ \A j \in 1..(k - 1) : states[j] # "inflight"

-----------------------------------------------------------------------------
(* scan_site *)

\* Lines 163-173: what happens before the request is made.
\*   "error"   the early return of lines 165-171
\*   "raise"   url_template.format(username) raises (outside the try)
\*   "request" the GET is issued on the task's own AsyncClient
ScanSitePrepare(v, url) ==
    IF url = "missing" THEN "error"
    ELSE IF url = "nonstring" THEN (IF v = "v2" THEN "error" ELSE "raise")
    ELSE IF url = "badformat" THEN "raise"
    ELSE "request"

MalformedResult(v, site) ==
    Result(site, NA, "ERROR", PyInt(0), IF v = "v2" THEN PyFloat(0) ELSE PyInt(0))

\* Variant with the except clauses in the other order: TimeoutException is a
\* RequestError, so the first clause takes the timeouts too.
ScanSiteResult_TimeoutAsError(v, site, user, o) ==
    IF o.kind = "response"
    THEN Result(site, o.response.url,
                IF is_username_found(v, o.response) THEN "FOUND" ELSE "NOT FOUND",
                PyInt(o.response.status_code), PyFloat(o.elapsed))
    ELSE Result(site, FullUrl(site, user), "ERROR", PyInt(0), PyFloat(o.elapsed))

\* Lines 189-218: the result for a transport outcome.
ScanSiteResult(v, site, user, o) ==
    IF o.kind = "response"
    THEN Result(site, o.response.url,
                IF is_username_found(v, o.response) THEN "FOUND" ELSE "NOT FOUND",
                PyInt(o.response.status_code), PyFloat(o.elapsed))
    ELSE IF o.kind = "timeout"
    THEN Result(site, FullUrl(site, user), "TIMEOUT", PyInt(0), PyFloat(o.elapsed))
    ELSE Result(site, FullUrl(site, user), "ERROR", PyInt(0), PyFloat(o.elapsed))

-----------------------------------------------------------------------------
(* State *)

AllSiteNames ==
    SmallSites \cup { ManySites(max_connections + 1)[k].name :
                        k \in 1..(max_connections + 1) }
        \cup { default_sites[k].name : k \in 1..Len(default_sites) }

Keys == Usernames \X AllSiteNames

\* History of the writes of one key: the last result written and when, who
\* wrote it, and what it replaced.
NoWrite == [valid |-> FALSE, result |-> NoResult, at |-> 0, by |-> "",
            replaced |-> "none"]

Written(table, u, r, t, by) ==
    LET prior == { x \in table : x.username = u /\ x.site_name = r.siteName }
    IN  [valid |-> TRUE, result |-> r, at |-> t, by |-> by,
         replaced |-> IF prior = {} THEN "none"
                      ELSE IF \E x \in prior : t - x.timestamp < Horizon
                      THEN "live" ELSE "expired"]
\* For a "get", saved/arg/arg_at describe the save_result call on the same key
\* that directly preceded it, if there was one.
NoCall == [op |-> "none", username |-> "", site_name |-> "", saved |-> FALSE,
           arg |-> NoResult, arg_at |-> 0, ret |-> None, at |-> 0]

Unbound == [bound |-> FALSE, v |-> 0]
Bound(n) == [bound |-> TRUE, v |-> n]

Line(kind, site, status, a, b) ==
    [kind |-> kind, site |-> site, status |-> status, a |-> a, b |-> b]

CountFound(rs) == Cardinality({ k \in 1..Len(rs) : rs[k].status = "FOUND" })

NoSample == [status_code |-> 0, text |-> <<>>, title |-> NoTitle]
NoVerdict == [v \in Variants |-> ""]

\* Nothing has run yet.
Fresh ==
    /\ sites_config = <<>>
    /\ config_type = ""
    /\ table_exists = FALSE
    /\ cli = NoCli
    /\ now = 0
    /\ results_table = {}
    /\ pc = "idle"
    /\ username = ""
    /\ idx = 0
    /\ cached_results = <<>>
    /\ sites_to_scan = <<>>
    /\ task_state = <<>>
    /\ task_result = <<>>
    /\ attempts = <<>>
    /\ completed = <<>>
    /\ results = <<>>
    /\ found_count = Unbound
    /\ output = <<>>
    /\ error = ""
    /\ lookups = <<>>
    /\ writes = <<>>
    /\ last_write = [k \in Keys |-> NoWrite]
    /\ last_call = NoCall
    /\ scans = 0
    /\ api_calls = 0

Init ==
    /\ variant \in Variants
    /\ sites_file \in SitesFiles
    /\ sample = NoSample
    /\ verdict = NoVerdict
    /\ Fresh

NoPending == \A j \in 1..Len(task_state) : task_state[j] # "pending"

-----------------------------------------------------------------------------
(* The clock *)

\* One tick is 24 hours: it passes between invocations and while the batch
\* waits for the network.
Tick ==
    /\ now < MaxTime
    /\ pc = "idle" \/ (pc = "gather" /\ NoPending)
    /\ now' = now + 1
    /\ UNCHANGED <<sample, verdict, variant, sites_file, table_exists, cli, config_type,
                   sites_config, results_table, pc, username, idx,
                   cached_results, sites_to_scan, task_state, task_result, attempts, completed,
                   results, found_count, output, error, lookups, writes,
                   last_write, last_call, scans, api_calls>>

-----------------------------------------------------------------------------
(* Direct calls of DatabaseManager, outside a scan *)

ApiResults(u) ==
    { Result("A", FullUrl("A", u), "NOT FOUND", PyInt(200), PyFloat(Quick)),
      Result("B", NA, "ERROR", PyInt(0), PyInt(0)) }

\* init_db: CREATE TABLE IF NOT EXISTS.
ApiInit ==
    /\ pc = "idle"
    /\ ~table_exists
    /\ table_exists' = TRUE
    /\ UNCHANGED <<sample, verdict, variant, sites_file, cli, config_type, sites_config,
                   now, results_table, pc, username, idx, cached_results,
                   sites_to_scan, task_state, task_result, attempts, completed,
                   results, found_count, output, error, lookups, writes,
                   last_write, last_call, scans, api_calls>>

ApiSave(u, r) ==
    /\ pc = "idle"
    /\ table_exists
    /\ api_calls < MaxApiCalls
    /\ results_table' = save_result(variant, results_table, u, r, now)
    /\ last_write' = [last_write EXCEPT ![<<u, r.siteName>>] =
                          Written(results_table, u, r, now, "api")]
    /\ last_call' = [op |-> "save", username |-> u, site_name |-> r.siteName,
                     saved |-> TRUE, arg |-> r, arg_at |-> now,
                     ret |-> None, at |-> now]
    /\ api_calls' = api_calls + 1
    /\ UNCHANGED <<sample, verdict, variant, sites_file, table_exists, cli, config_type,
                   sites_config, now, pc, username, idx,
                   cached_results, sites_to_scan, task_state, task_result, attempts, completed,
                   results, found_count, output, error, lookups, writes, scans>>

ApiGet(u, s) ==
    /\ pc = "idle"
    /\ table_exists
    /\ api_calls < MaxApiCalls
    /\ LET after_save == /\ last_call.op = "save"
                          /\ last_call.username = u
                          /\ last_call.site_name = s
       IN  last_call' =
               [op |-> "get", username |-> u, site_name |-> s,
                saved |-> after_save,
                arg |-> IF after_save THEN last_call.arg ELSE NoResult,
                arg_at |-> IF after_save THEN last_call.at ELSE 0,
                ret |-> get_cached_result(variant, results_table, u, s, now),
                at |-> now]
    /\ api_calls' = api_calls + 1
    /\ UNCHANGED <<sample, verdict, variant, sites_file, table_exists, cli, config_type,
                   sites_config, now, results_table, pc, username, idx,
                   cached_results, sites_to_scan, task_state, task_result, attempts, completed,
                   results, found_count, output, error, lookups, writes,
                   last_write, scans>>

-----------------------------------------------------------------------------
(* run_scan *)

\* Lines 228-235: init_db is CREATE TABLE IF NOT EXISTS and leaves the rows
\* alone; sites_config.keys() needs a dict.
StartScan(u, type) ==
    /\ table_exists' = TRUE
    /\ username' = u
    /\ IF type = "dict"
       THEN pc' = "lookup" /\ error' = ""
       ELSE pc' = "crashed" /\ error' = "AttributeError"
    /\ idx' = 1
    /\ output' = <<>>

\* Lines 329-331.
NoUsername ==
    /\ output' = <<Line("no_username", "", "", 0, 0)>>
    /\ pc' = "no_scan"
    /\ error' = ""
    /\ UNCHANGED <<table_exists, username, idx>>

\* Lines 322-334: one invocation of the program, up to the first lookup.
Main(arg, typed) ==
    /\ pc = "idle"
    /\ scans < MaxScans
    /\ scans' = scans + 1
    /\ LET loaded == load_sites_config(sites_file)
       IN  /\ sites_file' = loaded.file
           /\ sites_config' = loaded.ret
           /\ config_type' = loaded.type
           /\ IF loaded.raised # ""
              THEN /\ cli' = [arg |-> arg, prompted |-> FALSE, typed |-> <<>>,
                              file |-> sites_file]
                   /\ pc' = "no_scan"
                   /\ error' = loaded.raised
                   /\ UNCHANGED <<table_exists, username, idx, output>>
              ELSE /\ cli' = [arg |-> arg, prompted |-> arg = "",
                              typed |-> typed, file |-> sites_file]
                   /\ LET username_ == IF arg # "" THEN arg
                                       ELSE Text(Strip(typed))
                      IN  IF username_ = "" THEN NoUsername
                          ELSE StartScan(username_, loaded.type)
    /\ last_call' = NoCall
    /\ UNCHANGED <<sample, verdict, variant, now, results_table, cached_results,
                   sites_to_scan, task_state, task_result, attempts, completed,
                   results, found_count, lookups, writes, last_write, api_calls>>

\* Lines 235-240: one iteration of the lookup loop.
Lookup ==
    /\ pc = "lookup"
    /\ idx <= Len(sites_config)
    /\ LET site == sites_config[idx]
           cached_data == get_cached_result(variant, results_table, username,
                                            site.name, now)
       IN  /\ IF cached_data.found
              THEN /\ cached_results' = Append(cached_results, cached_data.value)
                   /\ UNCHANGED sites_to_scan
              ELSE /\ sites_to_scan' = Append(sites_to_scan, site)
                   /\ UNCHANGED cached_results
           /\ lookups' = Append(lookups, [site |-> site.name, at |-> now,
                                          hit |-> cached_data.found])
    /\ idx' = idx + 1
    /\ UNCHANGED <<sample, verdict, variant, sites_file, table_exists, cli, config_type,
                   sites_config, now, results_table, pc, username,
                   task_state, task_result, attempts, completed, results, found_count, output, error,
                   writes, last_write, last_call, scans, api_calls>>

\* Lines 243-247.
CachedLines(rs) ==
    IF rs = <<>> THEN <<>>
    ELSE <<Line("cached_header", "", "", 0, 0)>> \o
         [k \in 1..Len(rs) |-> Line("cached", rs[k].siteName, rs[k].status, 0, 0)]

ShowCached ==
    /\ pc = "lookup"
    /\ idx > Len(sites_config)
    /\ output' = output \o CachedLines(cached_results)
    /\ pc' = "scan_new"
    /\ UNCHANGED <<sample, verdict, variant, sites_file, table_exists, cli, config_type,
                   sites_config, now, results_table, username, idx,
                   cached_results, sites_to_scan, task_state, task_result, attempts, completed,
                   results, found_count, error, lookups, writes, last_write,
                   last_call, scans, api_calls>>

\* Lines 250-257, up to the await: the tasks are created, none has run yet.
ScanNew ==
    /\ pc = "scan_new"
    /\ IF sites_to_scan # <<>>
       THEN /\ output' = Append(output,
                           Line("live_header", "", "", Len(sites_to_scan), 0))
            /\ task_state' = [k \in 1..Len(sites_to_scan) |-> "pending"]
            /\ task_result' = [k \in 1..Len(sites_to_scan) |-> NoResult]
            /\ attempts' = [k \in 1..Len(sites_to_scan) |-> <<>>]
            /\ completed' = <<>>
            /\ pc' = "gather"
       ELSE /\ pc' = "summary"
            /\ UNCHANGED <<output, task_state, task_result, attempts, completed>>
    /\ UNCHANGED <<sample, verdict, variant, sites_file, table_exists, cli, config_type,
                   sites_config, now, results_table, username, idx,
                   cached_results, sites_to_scan, results, found_count, error,
                   lookups, writes, last_write, last_call, scans, api_calls>>

\* Each scan_site call builds its own httpx.AsyncClient (lines 183-187), so
\* the pool a task draws its connection from is the task's own.
ClientOf(k) == k

OpenConnections(client) ==
    Cardinality({ j \in 1..Len(task_state) :
                    task_state[j] = "inflight" /\ ClientOf(j) = client })

TotalOpenConnections ==
    Cardinality({ j \in 1..Len(task_state) : task_state[j] = "inflight" })

\* First step of task k (scan_site lines 163-189, up to the await of the
\* GET).  The event loop runs the first steps in task order, all of them
\* before any I/O completes.
TaskStart(k) ==
    /\ pc = "gather"
    /\ k \in 1..Len(task_state)
    /\ task_state[k] = "pending"
    /\ \A j \in 1..(k - 1) : task_state[j] # "pending"
    /\ LET site == sites_to_scan[k]
           prep == ScanSitePrepare(variant, site.url)
       IN  \/ /\ prep = "error"
              /\ task_state' = [task_state EXCEPT ![k] = "returned"]
              /\ task_result' = [task_result EXCEPT
                                    ![k] = MalformedResult(variant, site.name)]
              /\ completed' = Append(completed, k)
              /\ UNCHANGED attempts
           \/ /\ prep = "raise"
              /\ task_state' = [task_state EXCEPT ![k] = "raised"]
              /\ UNCHANGED <<task_result, attempts, completed>>
           \/ /\ prep = "request"
              /\ OpenConnections(ClientOf(k)) < max_connections
              /\ task_state' = [task_state EXCEPT ![k] = "inflight"]
              /\ attempts' = [attempts EXCEPT ![k] = Append(@, "inflight")]
              /\ UNCHANGED <<task_result, completed>>
    /\ UNCHANGED <<sample, verdict, variant, sites_file, table_exists, cli, config_type,
                   sites_config, now, results_table, pc, username, idx,
                   cached_results, sites_to_scan, results, found_count, output,
                   error, lookups, writes, last_write, last_call, scans,
                   api_calls>>

\* The GET of task k ends (lines 189-218): response, timeout or other
\* request error; the connection is released with the client.
TaskComplete(k, o) ==
    /\ pc = "gather"
    /\ k \in 1..Len(task_state)
    /\ task_state[k] = "inflight"
    /\ NoPending
    /\ InOrder(sites_to_scan[k].name, k, task_state)
    /\ o \in Transport(sites_to_scan[k].name, username)
    /\ task_state' = [task_state EXCEPT ![k] = "returned"]
    /\ task_result' = [task_result EXCEPT
                          ![k] = ScanSiteResult(variant, sites_to_scan[k].name,
                                                username, o)]
    /\ attempts' = [attempts EXCEPT
                       ![k] = [attempts[k] EXCEPT ![Len(attempts[k])] = o.kind]]
    /\ completed' = Append(completed, k)
    /\ UNCHANGED <<sample, verdict, variant, sites_file, table_exists, cli, config_type,
                   sites_config, now, results_table, pc, username, idx,
                   cached_results, sites_to_scan, results, found_count, output,
                   error, lookups, writes, last_write, last_call, scans,
                   api_calls>>

\* Line 257: gather() without return_exceptions passes the first exception of
\* a task on to run_scan; nothing catches it, and asyncio.run cancels the
\* tasks still running.
GatherRaise ==
    /\ pc = "gather"
    /\ NoPending
    /\ \E k \in 1..Len(task_state) : task_state[k] = "raised"
    /\ task_state' = [k \in 1..Len(task_state) |->
                         IF task_state[k] = "inflight" THEN "cancelled"
                         ELSE task_state[k]]
    /\ pc' = "crashed"
    /\ error' = "scan_site"
    /\ UNCHANGED <<sample, verdict, variant, sites_file, table_exists, cli, config_type,
                   sites_config, now, results_table, username, idx,
                   cached_results, sites_to_scan, task_result, attempts, completed, results,
                   found_count, output, lookups, writes, last_write, last_call,
                   scans, api_calls>>

\* Variant of the join that is satisfied by the first task to return.
AllReturned_Any(states) == \E k \in 1..Len(states) : states[k] = "returned"

\* Join condition of asyncio.gather.
AllReturned(states) == \A k \in 1..Len(states) : states[k] = "returned"

\* Variant that hands the results over in the order of completion.
GatherResults_AsCompleted(task_res, order) ==
    [k \in 1..Len(order) |-> task_res[order[k]]]

\* asyncio.gather returns the results in the order of the awaitables it was
\* given, not in the order in which they finished.
GatherResults(task_res, order) == task_res

\* Lines 257-259: every task has returned; results are in task order.
GatherReturn ==
    /\ pc = "gather"
    /\ AllReturned(task_state)
    /\ results' = GatherResults(task_result, completed)
    /\ found_count' = Bound(0)
    /\ idx' = 1
    /\ pc' = "save"
    /\ UNCHANGED <<sample, verdict, variant, sites_file, table_exists, cli, config_type,
                   sites_config, now, results_table, username,
                   cached_results, sites_to_scan, task_state, task_result, attempts, completed,
                   output, error, lookups, writes, last_write, last_call,
                   scans, api_calls>>

\* Lines 260-272: one iteration of the loop over the results.
SaveStep ==
    /\ pc = "save"
    /\ idx <= Len(results)
    /\ LET result == results[idx]
       IN  /\ results_table' = save_result(variant, results_table, username,
                                           result, now)
           /\ writes' = Append(writes, [site |-> result.siteName, at |-> now])
           /\ last_write' = [last_write EXCEPT ![<<username, result.siteName>>] =
                                Written(results_table, username, result,
                                        now, "scan")]
           /\ found_count' = IF result.status = "FOUND"
                             THEN Bound(found_count.v + 1) ELSE found_count
           /\ output' = Append(output, Line("fresh", result.siteName,
                                            result.status,
                                            result.responseTime.v, 0))
    /\ idx' = idx + 1
    /\ pc' = IF idx = Len(results) THEN "summary" ELSE "save"
    /\ UNCHANGED <<sample, verdict, variant, sites_file, table_exists, cli, config_type,
                   sites_config, now, username, cached_results,
                   sites_to_scan, task_state, task_result, attempts, completed, results, error,
                   lookups, last_call, scans, api_calls>>

\* Lines 275-280.  found_count is assigned only inside "if sites_to_scan:"
\* (line 259); reading it unassigned raises UnboundLocalError.
Summary ==
    /\ pc = "summary"
    /\ \/ /\ ~found_count.bound
          /\ pc' = "crashed"
          /\ error' = "UnboundLocalError"
          /\ UNCHANGED output
       \/ /\ found_count.bound
          /\ LET total_found == CountFound(cached_results) + found_count.v
                 total_sites == Len(cached_results) + Len(sites_to_scan)
             IN  output' = output \o
                     << Line("complete", "", "", 0, 0),
                        Line("summary", "", "", total_found, total_sites),
                        Line("username", username, "", 0, 0) >>
          /\ pc' = "done"
          /\ UNCHANGED error
    /\ UNCHANGED <<sample, verdict, variant, sites_file, table_exists, cli, config_type,
                   sites_config, now, results_table, username, idx,
                   cached_results, sites_to_scan, task_state, task_result, attempts, completed,
                   results, found_count, lookups, writes, last_write, last_call,
                   scans, api_calls>>

\* main returns (or the exception ends the process): the locals are gone, the
\* database file stays.
Exit ==
    /\ pc \in {"done", "crashed", "no_scan"}
    /\ pc' = "idle"
    /\ sites_config' = <<>>
    /\ config_type' = ""
    /\ cli' = NoCli
    /\ username' = ""
    /\ idx' = 0
    /\ cached_results' = <<>>
    /\ sites_to_scan' = <<>>
    /\ task_state' = <<>>
    /\ task_result' = <<>>
    /\ attempts' = <<>>
    /\ completed' = <<>>
    /\ results' = <<>>
    /\ found_count' = Unbound
    /\ output' = <<>>
    /\ error' = ""
    /\ lookups' = <<>>
    /\ writes' = <<>>
    /\ UNCHANGED <<sample, verdict, variant, sites_file, table_exists, now,
                   results_table, last_write, last_call, scans, api_calls>>

-----------------------------------------------------------------------------

Next ==
    \/ Tick
    \/ ApiInit
    \/ \E u \in ApiUsernames : \E r \in ApiResults(u) : ApiSave(u, r)
    \/ \E u \in ApiUsernames : \E s \in SmallSites : ApiGet(u, s)
    \/ \E arg \in Args :
           \E typed \in (IF arg = "" THEN TypedInputs ELSE {<<>>}) : Main(arg, typed)
    \/ Lookup
    \/ ShowCached
    \/ ScanNew
    \/ \E k \in 1..Len(task_state) : TaskStart(k)
    \/ \E k \in 1..Len(task_state) :
           \E o \in Transport(sites_to_scan[k].name, username) : TaskComplete(k, o)
    \/ GatherRaise
    \/ GatherReturn
    \/ SaveStep
    \/ Summary
    \/ Exit

Spec == Init /\ [][Next]_vars

-----------------------------------------------------------------------------
(* is_username_found on its own: every page of up to MaxWords words *)

StatusCodes == {200, 404, 500}

Vocabulary == {"not", "found", "404", "profile", "User", "welcome"}

Texts == UNION { [1..n -> Vocabulary] : n \in 0..MaxWords }

Titles == { NoTitle, Title(<<"Error">>), Title(<<"User", "page">>),
            Title(<<"Profile">>) }

\* scan_site line 193
Status(is_found) == IF is_found THEN "FOUND" ELSE "NOT FOUND"

InitClassify ==
    /\ variant = "v1"
    /\ sites_file = File("absent", <<>>)
    /\ sample \in { [status_code |-> c, text |-> t, title |-> ti] :
                    c \in StatusCodes, t \in Texts, ti \in Titles }
    /\ verdict = NoVerdict
    /\ Fresh

Classify(v) ==
    /\ verdict[v] = ""
    /\ verdict' = [verdict EXCEPT ![v] = Status(is_username_found(v, sample))]
    /\ UNCHANGED <<variant, sites_file, table_exists, cli, config_type,
                   sites_config, now, results_table, pc, username, idx,
                   cached_results, sites_to_scan, task_state, task_result,
                   attempts, completed, results, found_count, output, error,
                   lookups, writes, last_write, last_call, scans, api_calls,
                   sample>>

NextClassify == \E v \in Variants : Classify(v)

SpecClassify == InitClassify /\ [][NextClassify]_vars

-----------------------------------------------------------------------------
(* Properties *)

Ended == pc \in {"done", "crashed"}

Occurrences(rs, n) == Cardinality({ k \in 1..Len(rs) : rs[k].siteName = n })

RowsOf(u, s) == { r \in results_table : r.username = u /\ r.site_name = s }

\* C1: when a scan has ended, every platform of the configuration has exactly
\* one result, in the cached group or in the freshly probed group, and the two
\* groups together are as many as the platforms.
C1_OneResultPerPlatform ==
    Ended =>
        /\ \A k \in 1..Len(sites_config) :
               Occurrences(cached_results, sites_config[k].name)
                   + Occurrences(results, sites_config[k].name) = 1
        /\ Len(cached_results) + Len(results) = Len(sites_config)

\* C2: in a scan of U, a platform S whose most recent write was the live probe
\* of an earlier scan, less than the horizon before this scan's lookup, is
\* served from the cache with that probe's verdict and gets no probe.
C2_SecondScanServedFromCache ==
    \A i \in 1..Len(lookups) :
        LET l == lookups[i]
            w == last_write[<<username, l.site>>]
        IN  ( /\ w.valid
              /\ w.by = "scan"
              /\ \A j \in 1..Len(writes) : writes[j].site # l.site
              /\ l.at - w.at < Horizon )
            => /\ l.hit
               /\ \E c \in 1..Len(cached_results) :
                      /\ cached_results[c].siteName = l.site
                      /\ cached_results[c].status = w.result.status
               /\ \A t \in 1..Len(sites_to_scan) : sites_to_scan[t].name # l.site

C2_Witness ==
    /\ pc = "summary"
    /\ scans = 2
    /\ \E i \in 1..Len(lookups) :
           /\ lookups[i].hit
           /\ last_write[<<username, lookups[i].site>>].by = "scan"
           /\ last_write[<<username, lookups[i].site>>].result.status = "TIMEOUT"

\* C3 as stated: a direct get_cached_result(U, S) finds the row exactly when
\* a row of (U, S) exists with now - timestamp <= horizon.
C3_HitIffAgeAtMostHorizon ==
    last_call.op = "get" =>
        ( last_call.ret.found <=>
            \E r \in RowsOf(last_call.username, last_call.site_name) :
                last_call.at - r.timestamp <= Horizon )

\* C3, amended: get_cached_result(U, S) returns the stored result exactly when
\* a row of (U, S) exists with now - timestamp < horizon; a row aged exactly
\* the horizon, or more, is reported absent.
C3_HitIffAgeBelowHorizon ==
    last_call.op = "get" =>
        /\ last_call.ret.found <=>
               \E r \in RowsOf(last_call.username, last_call.site_name) :
                   last_call.at - r.timestamp < Horizon
        /\ last_call.ret.found =>
               \E r \in RowsOf(last_call.username, last_call.site_name) :
                   /\ last_call.ret.value.status = r.status
                   /\ last_call.ret.value.url = r.url
                   /\ PyEq(last_call.ret.value.httpCode, r.http_code)
                   /\ PyEq(last_call.ret.value.responseTime, r.response_time)

C3_Witness ==
    /\ last_call.op = "get"
    /\ ~last_call.ret.found
    /\ \E r \in RowsOf(last_call.username, last_call.site_name) :
           last_call.at - r.timestamp = Horizon

\* C4: a scan that has ended without a failing probe has printed the tally:
\* total = |cached| + |to probe|, found = the FOUND results of both groups.
C4_TallyReported ==
    (Ended /\ error # "scan_site") =>
        \E k \in 1..Len(output) :
            /\ output[k].kind = "summary"
            /\ output[k].a = CountFound(cached_results) + CountFound(results)
            /\ output[k].b = Len(cached_results) + Len(sites_to_scan)

\* C5: no scan_site call raises, every result it returns carries one of the
\* four verdicts, and the batch join does not fail.
C5_ScanSiteNeverRaises ==
    /\ \A k \in 1..Len(task_state) :
           /\ task_state[k] # "raised"
           /\ task_state[k] = "returned" => task_result[k].status \in Verdicts
    /\ error # "scan_site"

\* C6: when a scan completes, every platform it probed live has a row keyed
\* (username, platform) holding the probe's verdict, url, http code and
\* elapsed time, stamped at the time of the write, whatever the verdict; a
\* lookup of the pair is a hit with the same values from then until the
\* horizon has passed.
C6_ProbedResultsAreCached ==
    pc = "done" =>
        /\ Len(results) = Len(sites_to_scan)
        /\ \A k \in 1..Len(sites_to_scan) :
               LET r == results[k]
                   got == get_cached_result(variant, results_table, username,
                                            sites_to_scan[k].name, now)
               IN  /\ r.siteName = sites_to_scan[k].name
                   /\ \E row \in RowsOf(username, r.siteName) :
                          /\ row.url = r.url
                          /\ row.status = r.status
                          /\ PyEq(row.http_code, r.httpCode)
                          /\ PyEq(row.response_time, r.responseTime)
                          /\ row.timestamp = writes[k].at
                          /\ row.timestamp = now
                   /\ got.found
                   /\ got.value.status = r.status
                   /\ got.value.url = r.url
                   /\ \A t \in now..(now + Horizon) :
                          get_cached_result(variant, results_table, username,
                                            r.siteName, t).found
                              <=> t - now < Horizon

C6_Witness ==
    /\ pc = "done"
    /\ \E k \in 1..Len(results) : results[k].status = "ERROR" /\ results[k].url = NA
    /\ \E k \in 1..Len(results) : results[k].status = "TIMEOUT"
    /\ now > 0

\* C7: the table holds at most one row per (username, platform), and that row
\* is the result and the time of the most recent save_result for the pair;
\* a pair never written has no row.
C7_OneRowPerKeyLastWriteWins ==
    \A key \in Keys :
        LET rows == RowsOf(key[1], key[2])
            w == last_write[key]
        IN  /\ Cardinality(rows) <= 1
            /\ ~w.valid => rows = {}
            /\ w.valid =>
                   \E row \in rows :
                       /\ row.url = w.result.url
                       /\ row.status = w.result.status
                       /\ PyEq(row.http_code, w.result.httpCode)
                       /\ PyEq(row.response_time, w.result.responseTime)
                       /\ row.timestamp = w.at

C7_Witness ==
    /\ \E key \in Keys : last_write[key].replaced = "live" /\ last_write[key].by = "api"
    /\ \E key \in Keys : last_write[key].replaced = "expired" /\ last_write[key].by = "scan"

\* C8: a get_cached_result(U, S) that directly follows save_result(U, r) with
\* r.siteName = S, less than the horizon later, returns a dict of exactly
\* siteName, url, status, httpCode, responseTime, with siteName = S and the
\* other four equal to those of r.
C8_SaveThenGetRoundTrip ==
    ( /\ last_call.op = "get"
      /\ last_call.saved
      /\ last_call.at - last_call.arg_at < Horizon )
    => /\ last_call.ret.found
       /\ DOMAIN last_call.ret.value =
              {"siteName", "url", "status", "httpCode", "responseTime"}
       /\ last_call.ret.value.siteName = last_call.site_name
       /\ last_call.ret.value.status = last_call.arg.status
       /\ last_call.ret.value.url = last_call.arg.url
       /\ PyEq(last_call.ret.value.httpCode, last_call.arg.httpCode)
       /\ PyEq(last_call.ret.value.responseTime, last_call.arg.responseTime)

C8_Witness ==
    /\ last_call.op = "get"
    /\ last_call.saved
    /\ last_call.ret.found
    /\ last_call.arg.httpCode.v = 200

\* C9: at no time are more than max_connections probe connections open.
C9_AtMostTenConnections == TotalOpenConnections <= max_connections

\* C10: once a probe has been dispatched every platform has had its cache
\* lookup, and a cache write or a fresh-result line exists only when every
\* launched probe has returned.
C10_PhasesOrdered ==
    /\ Len(task_state) > 0 =>
           /\ Len(lookups) = Len(sites_config)
           /\ Len(task_state) = Len(sites_to_scan)
    /\ ( \/ writes # <<>>
         \/ \E k \in 1..Len(output) : output[k].kind = "fresh" )
       => /\ Len(task_state) = Len(sites_to_scan)
          /\ \A k \in 1..Len(task_state) : task_state[k] = "returned"

C10_Witness ==
    /\ pc = "save"
    /\ Len(writes) = 1
    /\ Len(task_state) = 2
    /\ lookups[1].at < writes[1].at

\* C11: a task whose platform has a missing or malformed url entry returns,
\* without a request, the result ERROR / 0 / "N/A" / 0, and the batch does
\* not fail.
C11_MalformedEntryYieldsError ==
    /\ \A k \in 1..Len(task_state) :
           (sites_to_scan[k].url # "valid" /\ task_state[k] # "pending") =>
               /\ task_state[k] = "returned"
               /\ attempts[k] = <<>>
               /\ task_result[k].status = "ERROR"
               /\ task_result[k].httpCode.v = 0
               /\ task_result[k].url = NA
               /\ task_result[k].responseTime.v = 0
    /\ error # "scan_site"

\* C12: a task whose request timed out returns TIMEOUT, one whose request
\* failed otherwise returns ERROR; both with httpCode 0 and the url that was
\* requested.
C12_FailedRequestVerdicts ==
    \A k \in 1..Len(task_state) :
        (task_state[k] = "returned" /\ attempts[k] # <<>>) =>
            LET how == attempts[k][Len(attempts[k])]
                r == task_result[k]
            IN  /\ how = "timeout" => r.status = "TIMEOUT"
                /\ how = "error" => r.status = "ERROR"
                /\ how \in {"timeout", "error"} =>
                       /\ r.httpCode.v = 0
                       /\ r.url = FullUrl(sites_to_scan[k].name, username)
                /\ how = "response" => r.status \in {"FOUND", "NOT FOUND"}

C12_Witness ==
    /\ \E k \in 1..Len(task_state) :
           /\ task_state[k] = "returned"
           /\ attempts[k] = <<"timeout">>
           /\ task_result[k].status = "TIMEOUT"
    /\ \E r \in results_table :
           r.status = "ERROR" /\ r.url.kind = "full_url" /\ r.username # username

HasNegative(p) == \E e \in error_indicators : Contains(LowerText(p.text), e)
HasPositive(p) == \E e \in success_indicators : Contains(LowerText(p.text), e)
TitleSignal(p) ==
    /\ p.title.present
    /\ \/ Contains(LowerText(p.title.text), <<"profile">>)
       \/ Contains(LowerText(p.title.text), <<"user">>)

\* C13: in both variants a page with a status code other than 200 is
\* NOT FOUND whatever its body and title, and a 200 page whose lower-cased
\* body holds a negative phrase is NOT FOUND whatever positive phrases the
\* body or the title hold.
C13_NegativeTakesPrecedence ==
    \A v \in Variants :
        verdict[v] # "" =>
            /\ sample.status_code # 200 => verdict[v] = "NOT FOUND"
            /\ (sample.status_code = 200 /\ HasNegative(sample)) =>
                   verdict[v] = "NOT FOUND"

C13_Witness ==
    /\ verdict["v1"] = "NOT FOUND"
    /\ verdict["v2"] = "NOT FOUND"
    /\ sample.status_code = 200
    /\ HasNegative(sample)
    /\ HasPositive(sample)
    /\ TitleSignal(sample)

\* C14: the two variants agree on every sample except the 200 pages without a
\* negative phrase, without a positive phrase and without "profile" or "user"
\* in the title; on those the earlier variant says FOUND, the later NOT FOUND.
C14_VariantsDifferOnlyByDefault ==
    (verdict["v1"] # "" /\ verdict["v2"] # "") =>
        LET no_signal == /\ sample.status_code = 200
                         /\ ~HasNegative(sample)
                         /\ ~HasPositive(sample)
                         /\ ~TitleSignal(sample)
        IN  /\ no_signal => (verdict["v1"] = "FOUND" /\ verdict["v2"] = "NOT FOUND")
            /\ ~no_signal => verdict["v1"] = verdict["v2"]

C14_Witness ==
    /\ verdict["v1"] = "FOUND"
    /\ verdict["v2"] = "NOT FOUND"
    /\ sample.title.present
    /\ sample.text # <<>>
\* The three parts of the report: cached results, live results, summary.
Part(kind) ==
    CASE kind \in {"cached_header", "cached"} -> 1
      [] kind \in {"live_header", "fresh"} -> 2
      [] kind \in {"complete", "summary", "username"} -> 3

\* C15: the report of every scan comes in a fixed order: the cached results,
\* then the freshly probed results, then the found/total summary with the
\* username; no fresh line precedes a cached one and the summary with the
\* username is the last thing reported.
C15_ReportInFixedOrder ==
    /\ \A i, j \in 1..Len(output) :
           i < j => Part(output[i].kind) <= Part(output[j].kind)
    /\ Ended =>
           /\ Len(output) >= 2
           /\ output[Len(output) - 1].kind = "summary"
           /\ output[Len(output)].kind = "username"
           /\ output[Len(output)].site = username
\* C16: load_sites_config recovers from configuration errors: an absent
\* sites.json is created with the five default platforms, which are returned;
\* a file that is not JSON gives the same defaults; a file that parses gives
\* its content; so every invocation goes on with a platform mapping.
C16_ConfigErrorsRecovered ==
    pc # "idle" =>
        /\ cli.file.kind = "absent" =>
               /\ sites_config = default_sites
               /\ sites_file = File("object", default_sites)
        /\ cli.file.kind = "malformed" =>
               /\ sites_config = default_sites
               /\ sites_file = cli.file
        /\ cli.file.kind \in {"object", "array"} =>
               /\ sites_config = cli.file.content
               /\ sites_file = cli.file
        /\ config_type = "dict"
        /\ error \notin {"PermissionError", "AttributeError"}
\* Typed lines that hold nothing but whitespace.
BlankInputs == { <<>>, <<" ", "\t">> }

\* C17: when no username is given on the command line and the line typed at
\* the prompt is empty after stripping, main ends without scanning: the
\* results table is not created, and no lookup, probe or cache write happens
\* before the process exits.
C17_BlankUsernameEndsWithoutScan ==
    [][ /\ (pc = "idle" /\ pc' # "idle" /\ cli'.arg = "" /\ cli'.prompted
               /\ cli'.typed \in BlankInputs) =>
            /\ pc' = "no_scan"
            /\ output' = <<Line("no_username", "", "", 0, 0)>>
            /\ UNCHANGED <<table_exists, results_table, lookups, task_state,
                           attempts, writes, last_write>>
        /\ pc = "no_scan" =>
            /\ pc' = "idle"
            /\ UNCHANGED <<table_exists, results_table, last_write>>
      ]_vars

C17_Witness ==
    /\ pc = "no_scan"
    /\ cli.arg = ""
    /\ cli.prompted
    /\ cli.typed = <<" ", "\t">>
    /\ ~table_exists
    /\ lookups = <<>>
    /\ writes = <<>>
\* C18: within one scan every platform that missed the cache is probed
\* exactly once and written to the cache exactly once, whatever its verdict:
\* no GET is repeated after a timeout or an error, and no two writes of the
\* scan have the same platform.
C18_ProbedOnceWrittenOnce ==
    /\ \A k \in 1..Len(attempts) : Len(attempts[k]) <= 1
    /\ \A i, j \in 1..Len(writes) : i # j => writes[i].site # writes[j].site
    /\ Ended =>
           \A k \in 1..Len(sites_to_scan) :
               /\ task_state[k] = "returned"
               /\ Cardinality({ i \in 1..Len(writes) :
                                  writes[i].site = sites_to_scan[k].name }) = 1
\* The platforms the scan probes live.
Probed == { sites_to_scan[k].name : k \in 1..Len(sites_to_scan) }

\* C19: a scan of username U changes only the cache rows (U, S) of the
\* platforms S it probed live.  No step of a scan deletes a row; a row is
\* replaced or added only by the save of a probed platform's result, under
\* the scanned username; the lookups leave the store alone, so the row of a
\* cache hit keeps its timestamp and every hit is at most one horizon after
\* the last write of its key.
C19_ScanChangesOnlyProbedRows ==
    [][ (pc # "idle" \/ pc' # "idle") =>
            /\ \A row \in results_table \ results_table' :
                   /\ pc = "save"
                   /\ row.username = username
                   /\ row.site_name \in Probed
                   /\ \E new \in results_table' \ results_table :
                          new.site_name = row.site_name
            /\ \A row \in results_table' \ results_table :
                   /\ pc = "save"
                   /\ row.username = username
                   /\ row.site_name \in Probed
                   /\ row.site_name = results[idx].siteName
            /\ pc \in {"lookup", "no_scan", "idle"} => results_table' = results_table
            /\ \A i \in 1..Len(lookups) :
                   lookups[i].hit =>
                       LET w == last_write[<<username, lookups[i].site>>]
                       IN  /\ w.valid
                           /\ lookups[i].at - w.at <= Horizon
                           /\ lookups[i].site \notin Probed
                           /\ \E row \in RowsOf(username, lookups[i].site) :
                                  row.timestamp = w.at
      ]_vars

C19_Witness ==
    /\ pc = "done"
    /\ writes # <<>>
    /\ \E row \in results_table : row.username # username
    /\ \E i \in 1..Len(lookups) :
           /\ lookups[i].hit
           /\ \E row \in RowsOf(username, lookups[i].site) :
                  now - row.timestamp >= Horizon
\* Position of a platform in the configuration.
Pos(name) == CHOOSE k \in 1..Len(sites_config) : sites_config[k].name = name

\* The platforms of the report lines of one kind, in report order.
LinesOf(kind) == SelectSeq(output, LAMBDA l : l.kind = kind)

\* C20: the freshly probed results are written to the cache and reported in
\* the order of the platforms in the configuration, whatever the order in
\* which the probes complete; the cached results are reported in
\* configuration order too.
C20_ConfigurationOrder ==
    /\ \A i, j \in 1..Len(writes) :
           i < j => Pos(writes[i].site) < Pos(writes[j].site)
    /\ \A i, j \in 1..Len(LinesOf("fresh")) :
           i < j => Pos(LinesOf("fresh")[i].site) < Pos(LinesOf("fresh")[j].site)
    /\ \A i, j \in 1..Len(LinesOf("cached")) :
           i < j => Pos(LinesOf("cached")[i].site) < Pos(LinesOf("cached")[j].site)
    /\ \A i \in 1..Len(writes) :
           /\ writes[i].site = sites_to_scan[i].name
           /\ LinesOf("fresh")[i].site = writes[i].site

C20_Witness ==
    /\ pc = "done"
    /\ Len(writes) = 2
    /\ completed = <<2, 1>>
    /\ LinesOf("fresh")[1].site = sites_config[1].name
    /\ LinesOf("fresh")[2].site = sites_config[2].name
\* C21: in the earlier variant (src/osint_tool.py) the positive phrases and
\* the title never influence the verdict: for every status code, body and
\* title the verdict is FOUND exactly when the status code is 200 and the
\* lower-cased body holds none of the negative phrases.
C21_EarlierVariantIgnoresPositives ==
    verdict["v1"] # "" =>
        (verdict["v1"] = "FOUND" <=>
            (sample.status_code = 200 /\ ~HasNegative(sample)))

C21_Witness ==
    /\ verdict["v1"] = "FOUND"
    /\ sample.text # <<>>
    /\ ~HasPositive(sample)
    /\ sample.title.present
    /\ ~TitleSignal(sample)

====
